---- MODULE Spec2Model ----
(***************************************************************************)
(* Model of protogen's NewGenerator: the per-file build of the declaration *)
(* graph (newFile, newEnum, newEnumValue, newMessage, newField, newOneof,  *)
(* newService, newMethod), the field<->oneof wiring, the resolution of     *)
(* cross references through the two by-name tables, Location paths, and   *)
(* the to-generate marking.                                                *)
(*                                                                         *)
(* A request is a sequence of file descriptors and a to-generate list.     *)
(* Descriptors are the values protodesc hands to the builders: the model   *)
(* reads from them exactly what the code reads (FullName, Index through    *)
(* the position in the list, Kind, Enum/Message/ContainingMessage names,   *)
(* ContainingOneof, IsExtension, Input/Output names).  Full names are      *)
(* unique within a request, as they are for every descriptor set that      *)
(* protodesc.NewFile and RegisterFile accept; whether those two library    *)
(* calls accept a descriptor is an input of the model (field Valid).       *)
(***************************************************************************)
EXTENDS Integers, Sequences, FiniteSets, TLC

\* ---------------------------------------------------------------- bounds
MaxFiles == 3
MaxGen == 2

\* ------------------------------------------------- field_number.go
FileDescriptorProto_MessageType_FieldNumber == 4
FileDescriptorProto_EnumType_FieldNumber == 5
FileDescriptorProto_Service_FieldNumber == 6
FileDescriptorProto_Extension_FieldNumber == 7
Descriptorproto_Field_FieldNumber == 2
Descriptorproto_Extension_FieldNumber == 6
Descriptorproto_NestedType_FieldNumber == 3
Descriptorproto_EnumType_FieldNumber == 4
Descriptorproto_OneofDecl_FieldNumber == 8
Enumdescriptorproto_Value_FieldNumber == 2
Servicedescriptorproto_Method_FieldNumber == 2

\* ------------------------------------------------------- descriptors
\* The descriptor values of the request.  NoOneof is ContainingOneof() == nil.
NoOneof == 0 - 1

EnumValueD(name) == [FullName |-> name]

EnumD(name, values) == [FullName |-> name, Values |-> values]

FieldD(name, kind, type, oneof, isExt, extendee) ==
  [FullName |-> name, Kind |-> kind, Type |-> type, ContainingOneof |-> oneof,
   IsExtension |-> isExt, ContainingMessage |-> extendee]

OneofD(name) == [FullName |-> name]

MessageD(name, enums, messages, fields, oneofs, extensions) ==
  [FullName |-> name, Enums |-> enums, Messages |-> messages, Fields |-> fields,
   Oneofs |-> oneofs, Extensions |-> extensions]

MethodD(name, input, output) == [FullName |-> name, Input |-> input, Output |-> output]

ServiceD(name, methods) == [FullName |-> name, Methods |-> methods]

FileD(path, valid, enums, messages, extensions, services) ==
  [Path |-> path, Valid |-> valid, Enums |-> enums, Messages |-> messages,
   Extensions |-> extensions, Services |-> services]

\* a.proto: declarations only; its references stay inside the file.
FileA ==
  FileD("a.proto", TRUE,
    << EnumD("A.E", << EnumValueD("A.E0"), EnumValueD("A.E1") >>) >>,
    << MessageD("A.Bar",
         << EnumD("A.Bar.NE", << EnumValueD("A.Bar.N0") >>) >>,
         << MessageD("A.Bar.In", <<>>, <<>>,
              << FieldD("A.Bar.In.e", "enum", "A.E", NoOneof, FALSE, "A.Bar.In") >>,
              <<>>, <<>>) >>,
         << FieldD("A.Bar.x", "scalar", "", NoOneof, FALSE, "A.Bar"),
            FieldD("A.Bar.p", "scalar", "", 0, FALSE, "A.Bar"),
            FieldD("A.Bar.s", "scalar", "", 1, FALSE, "A.Bar"),
            FieldD("A.Bar.q", "message", "A.Bar.In", 0, FALSE, "A.Bar") >>,
         << OneofD("A.Bar.o"), OneofD("A.Bar.o2") >>,
         <<>>) >>,
    <<>>, <<>>)

\* b.proto: its references name declarations of a.proto and of its own.
FileB ==
  FileD("b.proto", TRUE, <<>>,
    << MessageD("B.Foo", <<>>,
         << MessageD("B.Foo.G", <<>>, <<>>,
              << FieldD("B.Foo.G.n", "enum", "A.Bar.NE", NoOneof, FALSE, "B.Foo.G") >>,
              <<>>, <<>>) >>,
         << FieldD("B.Foo.bar", "message", "A.Bar", NoOneof, FALSE, "B.Foo"),
            FieldD("B.Foo.e", "enum", "A.E", NoOneof, FALSE, "B.Foo"),
            FieldD("B.Foo.g", "group", "B.Foo.G", NoOneof, FALSE, "B.Foo") >>,
         <<>>,
         << FieldD("B.Foo.ext", "scalar", "", NoOneof, TRUE, "A.Bar") >>) >>,
    << FieldD("B.top", "message", "B.Foo", NoOneof, TRUE, "A.Bar") >>,
    << ServiceD("B.S", << MethodD("B.S.M", "B.Foo", "A.Bar") >>) >>)

\* c.proto: self-contained, with a service.
FileC ==
  FileD("c.proto", TRUE,
    << EnumD("C.K", << EnumValueD("C.K0") >>) >>,
    << MessageD("C.M", <<>>, <<>>,
         << FieldD("C.M.k", "enum", "C.K", NoOneof, FALSE, "C.M") >>,
         <<>>, <<>>),
       MessageD("C.R", <<>>, <<>>, <<>>, <<>>, <<>>) >>,
    <<>>,
    << ServiceD("C.S", << MethodD("C.S.Get", "C.M", "C.R"),
                          MethodD("C.S.Put", "C.R", "C.M") >>) >>)

\* d.proto: a message tree that needs a.proto and c.proto, and a method that
\* needs b.proto as well.
FileD4 ==
  FileD("d.proto", TRUE, <<>>,
    << MessageD("D.M", <<>>,
         << MessageD("D.M.N", <<>>, <<>>,
              << FieldD("D.M.N.k", "enum", "A.E", NoOneof, FALSE, "D.M.N") >>,
              <<>>, <<>>) >>,
         << FieldD("D.M.v", "scalar", "", NoOneof, FALSE, "D.M") >>,
         <<>>,
         << FieldD("D.M.x", "message", "C.M", NoOneof, TRUE, "A.Bar"),
            FieldD("D.M.w", "enum", "C.K", NoOneof, TRUE, "A.Bar") >>) >>,
    << FieldD("D.y", "scalar", "", NoOneof, TRUE, "A.Bar.In") >>,
    << ServiceD("D.S", << MethodD("D.S.Do", "A.Bar", "B.Foo"),
                          MethodD("D.S.Undo", "A.Bar", "C.R") >>) >>)

\* e.proto: a top-level extension that needs a.proto and c.proto, and a
\* method that needs b.proto.
FileE ==
  FileD("e.proto", TRUE, <<>>, <<>>,
    << FieldD("E.x", "message", "C.M", NoOneof, TRUE, "A.Bar.In") >>,
    << ServiceD("E.S", << MethodD("E.S.Do", "B.Foo", "B.Foo.G") >>) >>)

\* bad.proto: a descriptor protodesc.NewFile (or RegisterFile) rejects.
FileBad == FileD("bad.proto", FALSE, <<>>, <<>>, <<>>, <<>>)

Catalogue == << FileA, FileB, FileC, FileD4, FileE, FileBad >>

GenPaths == {"a.proto", "missing.proto"}

\* ------------------------------------------------------------ the heap
\* Every *File, *Enum, *EnumValue, *Message, *Field, *Oneof, *Service and
\* *Method is a heap cell; a pointer is the cell's address and Nil is nil.
\* An address names the declaration the cell was allocated for: the file's
\* index in Catalogue, then one (list, index) step per level.
Nil == <<>>

Step(list, idx) == [list |-> list, idx |-> idx]

Range(s) == {s[i] : i \in DOMAIN s}

\* The zero value of the Go structs (all of them in one shape).
ZeroNode ==
  [kind |-> "", Desc |-> Nil, Parent |-> Nil,
   Location |-> [SourceFile |-> "", Path |-> <<>>],
   Values |-> <<>>, Fields |-> <<>>, Oneofs |-> <<>>, Enums |-> <<>>,
   Messages |-> <<>>, Extensions |-> <<>>, Services |-> <<>>, Methods |-> <<>>,
   Oneof |-> Nil, Extendee |-> Nil, Enum |-> Nil, Message |-> Nil,
   Input |-> Nil, Output |-> Nil, Generate |-> FALSE]

\* Location.appendPath: a copy of the path with (num, idx) appended.
appendPath(loc, num, idx) == [loc EXCEPT !.Path = @ \o <<num, idx>>]

\* What a builder hands back: the cells it allocated and, in program order,
\* the assignments it made to gen.enumsByName and gen.messagesByName.
Built(heap, regs) == [heap |-> heap, regs |-> regs]

RECURSIVE MergeBuilt(_)
MergeBuilt(bs) ==
  IF bs = <<>> THEN Built(<<>>, <<>>)
  ELSE LET rest == MergeBuilt(Tail(bs))
       IN Built(Head(bs).heap @@ rest.heap, Head(bs).regs \o rest.regs)

\* The i-th element of a Go slice appended in a 0..Len-1 loop.
ChildIds(owner, list, n) == [i \in 1..n |-> owner \o <<Step(list, i - 1)>>]

newEnumValue(f, enum, desc, idx) ==
  LET loc == appendPath(enum.Location, Enumdescriptorproto_Value_FieldNumber, idx)
      id == enum.id \o <<Step("value", idx)>>
  IN Built(id :> [ZeroNode EXCEPT !.kind = "enumvalue", !.Desc = desc,
                                  !.Parent = enum.id, !.Location = loc],
           <<>>)

\* Mutant of newEnum: the file's enum tag is used for a nested enum too.
newEnumFileTag(f, parent, desc, idx) ==
  LET loc == IF parent.id # Nil
             THEN appendPath(parent.Location, FileDescriptorProto_EnumType_FieldNumber, idx)
             ELSE appendPath(f.Location, FileDescriptorProto_EnumType_FieldNumber, idx)
      id == (IF parent.id # Nil THEN parent.id ELSE f.id) \o <<Step("enum", idx)>>
      enum == [id |-> id, Location |-> loc]
      n == Len(desc.Values)
      values == MergeBuilt([i \in 1..n |-> newEnumValue(f, enum, desc.Values[i], i - 1)])
  IN Built((id :> [ZeroNode EXCEPT !.kind = "enum", !.Desc = desc, !.Location = loc,
                                   !.Values = ChildIds(id, "value", n)])
             @@ values.heap,
           << <<"enum", desc.FullName, id>> >>)

newEnum(f, parent, desc, idx) ==
  LET loc == IF parent.id # Nil
             THEN appendPath(parent.Location, Descriptorproto_EnumType_FieldNumber, idx)
             ELSE appendPath(f.Location, FileDescriptorProto_EnumType_FieldNumber, idx)
      id == (IF parent.id # Nil THEN parent.id ELSE f.id) \o <<Step("enum", idx)>>
      enum == [id |-> id, Location |-> loc]
      n == Len(desc.Values)
      values == MergeBuilt([i \in 1..n |-> newEnumValue(f, enum, desc.Values[i], i - 1)])
  IN Built((id :> [ZeroNode EXCEPT !.kind = "enum", !.Desc = desc, !.Location = loc,
                                   !.Values = ChildIds(id, "value", n)])
             @@ values.heap,
           << <<"enum", desc.FullName, id>> >>)

newField(f, message, desc, idx) ==
  LET loc == CASE desc.IsExtension /\ message.id = Nil ->
                    appendPath(f.Location, FileDescriptorProto_Extension_FieldNumber, idx)
               [] desc.IsExtension /\ message.id # Nil ->
                    appendPath(message.Location, Descriptorproto_Extension_FieldNumber, idx)
               [] OTHER ->
                    appendPath(message.Location, Descriptorproto_Field_FieldNumber, idx)
      id == (IF message.id # Nil THEN message.id ELSE f.id)
              \o <<Step(IF desc.IsExtension THEN "extension" ELSE "field", idx)>>
  IN Built(id :> [ZeroNode EXCEPT !.kind = "field", !.Desc = desc,
                                  !.Parent = message.id, !.Location = loc],
           <<>>)

newOneof(f, message, desc, idx) ==
  LET loc == appendPath(message.Location, Descriptorproto_OneofDecl_FieldNumber, idx)
      id == message.id \o <<Step("oneof", idx)>>
  IN Built(id :> [ZeroNode EXCEPT !.kind = "oneof", !.Desc = desc,
                                  !.Parent = message.id, !.Location = loc],
           <<>>)

\* Mutant of WireOneofs: the oneof collects the field, but the field's own
\* Oneof is never set.
RECURSIVE WireOneofsNoBacklink(_, _, _)
WireOneofsNoBacklink(heap, fields, oneofs) ==
  IF fields = <<>> THEN heap
  ELSE LET field == Head(fields)
           od == heap[field].Desc.ContainingOneof
       IN IF od # NoOneof
          THEN LET oneof == oneofs[od + 1]
               IN WireOneofsNoBacklink([heap EXCEPT ![oneof].Fields = Append(@, field)],
                                       Tail(fields), oneofs)
          ELSE WireOneofsNoBacklink(heap, Tail(fields), oneofs)

\* newMessage's last loop: the local links between fields and oneofs.
RECURSIVE WireOneofs(_, _, _)
WireOneofs(heap, fields, oneofs) ==
  IF fields = <<>> THEN heap
  ELSE LET field == Head(fields)
           od == heap[field].Desc.ContainingOneof
       IN IF od # NoOneof
          THEN LET oneof == oneofs[od + 1]
               IN WireOneofs([heap EXCEPT ![field].Oneof = oneof,
                                          ![oneof].Fields = Append(@, field)],
                             Tail(fields), oneofs)
          ELSE WireOneofs(heap, Tail(fields), oneofs)

RECURSIVE newMessage(_, _, _, _)
newMessage(f, parent, desc, idx) ==
  LET loc == IF parent.id # Nil
             THEN appendPath(parent.Location, Descriptorproto_NestedType_FieldNumber, idx)
             ELSE appendPath(f.Location, FileDescriptorProto_MessageType_FieldNumber, idx)
      id == (IF parent.id # Nil THEN parent.id ELSE f.id) \o <<Step("message", idx)>>
      message == [id |-> id, Location |-> loc]
      ne == Len(desc.Enums)
      nm == Len(desc.Messages)
      nf == Len(desc.Fields)
      no == Len(desc.Oneofs)
      nx == Len(desc.Extensions)
      enums == MergeBuilt([i \in 1..ne |-> newEnum(f, message, desc.Enums[i], i - 1)])
      messages == MergeBuilt([i \in 1..nm |-> newMessage(f, message, desc.Messages[i], i - 1)])
      fields == MergeBuilt([i \in 1..nf |-> newField(f, message, desc.Fields[i], i - 1)])
      oneofs == MergeBuilt([i \in 1..no |-> newOneof(f, message, desc.Oneofs[i], i - 1)])
      extensions == MergeBuilt([i \in 1..nx |-> newField(f, message, desc.Extensions[i], i - 1)])
      node == [ZeroNode EXCEPT !.kind = "message", !.Desc = desc, !.Location = loc,
                               !.Enums = ChildIds(id, "enum", ne),
                               !.Messages = ChildIds(id, "message", nm),
                               !.Fields = ChildIds(id, "field", nf),
                               !.Oneofs = ChildIds(id, "oneof", no),
                               !.Extensions = ChildIds(id, "extension", nx)]
      heap == (id :> node) @@ enums.heap @@ messages.heap @@ fields.heap
                @@ oneofs.heap @@ extensions.heap
  IN Built(WireOneofs(heap, node.Fields, node.Oneofs),
           << <<"message", desc.FullName, id>> >> \o enums.regs \o messages.regs)

newMethod(f, service, desc, idx) ==
  LET loc == appendPath(service.Location, Servicedescriptorproto_Method_FieldNumber, idx)
      id == service.id \o <<Step("method", idx)>>
  IN Built(id :> [ZeroNode EXCEPT !.kind = "method", !.Desc = desc,
                                  !.Parent = service.id, !.Location = loc],
           <<>>)

newService(f, desc, idx) ==
  LET loc == appendPath(f.Location, FileDescriptorProto_Service_FieldNumber, idx)
      id == f.id \o <<Step("service", idx)>>
      service == [id |-> id, Location |-> loc]
      n == Len(desc.Methods)
      methods == MergeBuilt([i \in 1..n |-> newMethod(f, service, desc.Methods[i], i - 1)])
  IN Built((id :> [ZeroNode EXCEPT !.kind = "service", !.Desc = desc, !.Location = loc,
                                   !.Methods = ChildIds(id, "method", n)])
             @@ methods.heap,
           <<>>)

\* newFile, lines 37-57: the File cell and the four build loops.
NoMessage == [id |-> Nil, Location |-> ZeroNode.Location]

FileId(c) == <<Step("file", c)>>

buildFile(c) ==
  LET p == Catalogue[c]
      id == FileId(c)
      loc == [SourceFile |-> p.Path, Path |-> <<>>]
      f == [id |-> id, Location |-> loc]
      ne == Len(p.Enums)
      nm == Len(p.Messages)
      nx == Len(p.Extensions)
      ns == Len(p.Services)
      enums == MergeBuilt([i \in 1..ne |-> newEnum(f, NoMessage, p.Enums[i], i - 1)])
      messages == MergeBuilt([i \in 1..nm |-> newMessage(f, NoMessage, p.Messages[i], i - 1)])
      extensions == MergeBuilt([i \in 1..nx |-> newField(f, NoMessage, p.Extensions[i], i - 1)])
      services == MergeBuilt([i \in 1..ns |-> newService(f, p.Services[i], i - 1)])
      node == [ZeroNode EXCEPT !.kind = "file", !.Desc = p, !.Location = loc,
                               !.Enums = ChildIds(id, "enum", ne),
                               !.Messages = ChildIds(id, "message", nm),
                               !.Extensions = ChildIds(id, "extension", nx),
                               !.Services = ChildIds(id, "service", ns)]
  IN Built((id :> node) @@ enums.heap @@ messages.heap @@ extensions.heap @@ services.heap,
           enums.regs \o messages.regs)

\* ------------------------------------------------------- resolution
\* An error value: the format string's fixed text and its two operands.
\* NoErr is a nil error.
Err(what, name, target) == [what |-> what, name |-> name, target |-> target]

NoErr == Err("", "", "")

\* What a resolveDependencies call leaves behind: the cell as it is when the
\* call returns, the error returned, and how many table lookups it made.
Resolved(node, err, lookups) == [node |-> node, err |-> err, lookups |-> lookups]

\* Mutant of fieldResolveType: the second case names MessageKind alone, so a
\* group field is left without its Message.
fieldResolveTypeNoGroup(enums, messages, field) ==
  LET desc == field.Desc
  IN CASE desc.Kind = "enum" ->
            IF desc.Type \in DOMAIN enums
            THEN Resolved([field EXCEPT !.Enum = enums[desc.Type]], NoErr, 1)
            ELSE Resolved(field,
                          Err("field: no descriptor for enum", desc.FullName, desc.Type), 1)
       [] desc.Kind = "message" ->
            IF desc.Type \in DOMAIN messages
            THEN Resolved([field EXCEPT !.Message = messages[desc.Type]], NoErr, 1)
            ELSE Resolved(field,
                          Err("field: no descriptor for type", desc.FullName, desc.Type), 1)
       [] OTHER -> Resolved(field, NoErr, 0)

\* Field.resolveDependencies, the switch on desc.Kind().
fieldResolveType(enums, messages, field) ==
  LET desc == field.Desc
  IN CASE desc.Kind = "enum" ->
            IF desc.Type \in DOMAIN enums
            THEN Resolved([field EXCEPT !.Enum = enums[desc.Type]], NoErr, 1)
            ELSE Resolved(field,
                          Err("field: no descriptor for enum", desc.FullName, desc.Type), 1)
       [] desc.Kind \in {"message", "group"} ->
            IF desc.Type \in DOMAIN messages
            THEN Resolved([field EXCEPT !.Message = messages[desc.Type]], NoErr, 1)
            ELSE Resolved(field,
                          Err("field: no descriptor for type", desc.FullName, desc.Type), 1)
       [] OTHER -> Resolved(field, NoErr, 0)

\* Mutant of fieldResolveDependencies: an extendee that is not in the table
\* is passed over instead of being reported.
fieldResolveDependenciesNoExtendeeCheck(enums, messages, field) ==
  LET desc == field.Desc
      typed == fieldResolveType(enums, messages, field)
  IN IF typed.err # NoErr THEN typed
     ELSE IF desc.IsExtension /\ desc.ContainingMessage \in DOMAIN messages
     THEN Resolved([typed.node EXCEPT !.Extendee = messages[desc.ContainingMessage]],
                   NoErr, typed.lookups + 1)
     ELSE typed

\* Field.resolveDependencies.
fieldResolveDependencies(enums, messages, field) ==
  LET desc == field.Desc
      typed == fieldResolveType(enums, messages, field)
  IN IF typed.err # NoErr THEN typed
     ELSE IF desc.IsExtension
     THEN IF desc.ContainingMessage \in DOMAIN messages
          THEN Resolved([typed.node EXCEPT !.Extendee = messages[desc.ContainingMessage]],
                        NoErr, typed.lookups + 1)
          ELSE Resolved(typed.node,
                        Err("field: no descriptor for type", desc.FullName,
                            desc.ContainingMessage),
                        typed.lookups + 1)
     ELSE typed

\* Mutant of methodResolveDependencies: Output is set from the input's lookup.
methodResolveDependenciesSwapped(messages, method) ==
  LET desc == method.Desc
  IN IF desc.Input \notin DOMAIN messages
     THEN Resolved(method,
                   Err("method: no descriptor for type", desc.FullName, desc.Input), 1)
     ELSE LET in == [method EXCEPT !.Input = messages[desc.Input]]
          IN IF desc.Output \notin DOMAIN messages
             THEN Resolved(in,
                           Err("method: no descriptor for type", desc.FullName, desc.Output),
                           2)
             ELSE Resolved([in EXCEPT !.Output = messages[desc.Input]], NoErr, 2)

\* Method.resolveDependencies.
methodResolveDependencies(messages, method) ==
  LET desc == method.Desc
  IN IF desc.Input \notin DOMAIN messages
     THEN Resolved(method,
                   Err("method: no descriptor for type", desc.FullName, desc.Input), 1)
     ELSE LET in == [method EXCEPT !.Input = messages[desc.Input]]
          IN IF desc.Output \notin DOMAIN messages
             THEN Resolved(in,
                           Err("method: no descriptor for type", desc.FullName, desc.Output),
                           2)
             ELSE Resolved([in EXCEPT !.Output = messages[desc.Output]], NoErr, 2)

RECURSIVE Flatten(_)
Flatten(ss) == IF ss = <<>> THEN <<>> ELSE Head(ss) \o Flatten(Tail(ss))

\* Mutant of messageResolveOrder: the extensions loop runs before the nested
\* messages loop.
RECURSIVE messageResolveOrderExtensionsFirst(_, _)
messageResolveOrderExtensionsFirst(h, message) ==
  h[message].Fields
    \o h[message].Extensions
    \o Flatten([k \in DOMAIN h[message].Messages |->
                  messageResolveOrderExtensionsFirst(h, h[message].Messages[k])])

\* Message.resolveDependencies: the order in which it reaches the fields.
RECURSIVE messageResolveOrder(_, _)
messageResolveOrder(h, message) ==
  h[message].Fields
    \o Flatten([k \in DOMAIN h[message].Messages |->
                  messageResolveOrder(h, h[message].Messages[k])])
    \o h[message].Extensions

\* Mutant of fileResolveOrder: the services loop is missing.
fileResolveOrderNoServices(h, file) ==
  Flatten([k \in DOMAIN h[file].Messages |-> messageResolveOrder(h, h[file].Messages[k])])
    \o h[file].Extensions

\* newFile, lines 59-77: the order of its three resolve loops.
fileResolveOrder(h, file) ==
  Flatten([k \in DOMAIN h[file].Messages |-> messageResolveOrder(h, h[file].Messages[k])])
    \o h[file].Extensions
    \o Flatten([k \in DOMAIN h[file].Services |-> h[h[file].Services[k]].Methods])

\* m[k] = v on a Go map.
Put(m, k, v) == [x \in DOMAIN m \cup {k} |-> IF x = k THEN v ELSE m[x]]

\* The map assignments of a build, applied in program order.
RECURSIVE ApplyRegs(_, _, _)
ApplyRegs(m, table, regs) ==
  IF regs = <<>> THEN m
  ELSE ApplyRegs(IF Head(regs)[1] = table THEN Put(m, Head(regs)[2], Head(regs)[3]) ELSE m,
                 table, Tail(regs))

\* --------------------------------------------------------------- state
VARIABLES
  request,         \* the CodeGeneratorRequest: ProtoFile, FileToGenerate
  pc,              \* where NewGenerator is: "files", "resolve", "generate", "done"
  i,               \* index of the first loop (ProtoFile)
  j,               \* index of the second loop (FileToGenerate)
  heap,            \* the cells allocated so far
  f,               \* newFile's f while newFile runs, else Nil
  todo,            \* the references newFile has still to resolve, next first
  files,           \* gen.files
  filesByPath,     \* gen.filesByPath
  enumsByName,     \* gen.enumsByName
  messagesByName,  \* gen.messagesByName
  err,             \* the error NewGenerator returns
  ret,             \* the *Generator NewGenerator returns: "gen", "nil", or "" while running
  lookups          \* how many by-name lookups resolution has made so far

vars == <<request, pc, i, j, heap, f, todo, files, filesByPath, enumsByName,
          messagesByName, err, ret, lookups>>

SeqsUpTo(S, n) == UNION {[1..k -> S] : k \in 0..n}

Requests ==
  [ProtoFile : SeqsUpTo(DOMAIN Catalogue, MaxFiles),
   FileToGenerate : SeqsUpTo(GenPaths, MaxGen)]

EmptyMap == <<>>

\* NewGenerator, lines 39-46.
Init ==
  /\ request \in Requests
  /\ pc = IF request.ProtoFile = <<>> THEN "generate" ELSE "files"
  /\ i = 1
  /\ j = 1
  /\ heap = EmptyMap
  /\ f = Nil
  /\ todo = <<>>
  /\ files = <<>>
  /\ filesByPath = EmptyMap
  /\ enumsByName = EmptyMap
  /\ messagesByName = EmptyMap
  /\ err = NoErr
  /\ ret = ""
  /\ lookups = 0

protoFile == Catalogue[request.ProtoFile[i]]

\* return nil, err
Fail(e) ==
  /\ err' = e
  /\ ret' = "nil"
  /\ pc' = "done"

\* NewGenerator, lines 50-52.
DuplicateFile ==
  /\ pc = "files"
  /\ protoFile.Path \in DOMAIN filesByPath
  /\ Fail(Err("duplicate file name", "", protoFile.Path))
  /\ UNCHANGED <<request, i, j, heap, f, todo, files, filesByPath, enumsByName,
                 messagesByName, lookups>>

\* newFile, lines 28-35: protodesc.NewFile or RegisterFile returns an error.
NewFileInvalid ==
  /\ pc = "files"
  /\ protoFile.Path \notin DOMAIN filesByPath
  /\ ~protoFile.Valid
  /\ Fail(Err("invalid FileDescriptorProto", "", protoFile.Path))
  /\ UNCHANGED <<request, i, j, heap, f, todo, files, filesByPath, enumsByName,
                 messagesByName, lookups>>

\* Mutant of NewFileBuild: the two tables are made anew for each file.
NewFileBuildFreshTables ==
  /\ pc = "files"
  /\ protoFile.Path \notin DOMAIN filesByPath
  /\ protoFile.Valid
  /\ LET built == buildFile(request.ProtoFile[i])
         h == built.heap @@ heap
     IN /\ heap' = h
        /\ enumsByName' = ApplyRegs(EmptyMap, "enum", built.regs)
        /\ messagesByName' = ApplyRegs(EmptyMap, "message", built.regs)
        /\ f' = FileId(request.ProtoFile[i])
        /\ todo' = fileResolveOrder(h, FileId(request.ProtoFile[i]))
  /\ pc' = "resolve"
  /\ UNCHANGED <<request, i, j, files, filesByPath, err, ret, lookups>>

\* newFile, lines 37-57: the file's cells are built and its enums and
\* messages entered in the tables.
NewFileBuild ==
  /\ pc = "files"
  /\ protoFile.Path \notin DOMAIN filesByPath
  /\ protoFile.Valid
  /\ LET built == buildFile(request.ProtoFile[i])
         h == built.heap @@ heap
     IN /\ heap' = h
        /\ enumsByName' = ApplyRegs(enumsByName, "enum", built.regs)
        /\ messagesByName' = ApplyRegs(messagesByName, "message", built.regs)
        /\ f' = FileId(request.ProtoFile[i])
        /\ todo' = fileResolveOrder(h, FileId(request.ProtoFile[i]))
  /\ pc' = "resolve"
  /\ UNCHANGED <<request, i, j, files, filesByPath, err, ret, lookups>>

\* Mutant of ResolveCall: the error is kept and the loop goes on.
ResolveCallContinue(r) ==
  /\ heap' = [heap EXCEPT ![Head(todo)] = r.node]
  /\ lookups' = lookups + r.lookups
  /\ err' = IF r.err # NoErr THEN r.err ELSE err
  /\ todo' = Tail(todo)
  /\ UNCHANGED <<request, pc, ret, i, j, f, files, filesByPath, enumsByName, messagesByName>>

\* One resolveDependencies call of newFile's loops: on an error newFile and
\* NewGenerator return it at once.
ResolveCall(r) ==
  /\ heap' = [heap EXCEPT ![Head(todo)] = r.node]
  /\ lookups' = lookups + r.lookups
  /\ IF r.err # NoErr
     THEN /\ Fail(r.err)
          /\ UNCHANGED todo
     ELSE /\ todo' = Tail(todo)
          /\ UNCHANGED <<pc, err, ret>>
  /\ UNCHANGED <<request, i, j, f, files, filesByPath, enumsByName, messagesByName>>

ResolveField ==
  /\ pc = "resolve"
  /\ todo # <<>>
  /\ heap[Head(todo)].kind = "field"
  /\ ResolveCall(fieldResolveDependencies(enumsByName, messagesByName, heap[Head(todo)]))

ResolveMethod ==
  /\ pc = "resolve"
  /\ todo # <<>>
  /\ heap[Head(todo)].kind = "method"
  /\ ResolveCall(methodResolveDependencies(messagesByName, heap[Head(todo)]))

\* newFile returns f; NewGenerator, lines 59-60.
NewFileReturn ==
  /\ pc = "resolve"
  /\ todo = <<>>
  /\ files' = Append(files, f)
  /\ filesByPath' = Put(filesByPath, protoFile.Path, f)
  /\ f' = Nil
  /\ i' = i + 1
  /\ pc' = IF i + 1 > Len(request.ProtoFile) THEN "generate" ELSE "files"
  /\ UNCHANGED <<request, j, heap, todo, enumsByName, messagesByName, err, ret, lookups>>

filename == request.FileToGenerate[j]

\* NewGenerator, lines 63-69, a path of a supplied file.
MarkGenerate ==
  /\ pc = "generate"
  /\ j <= Len(request.FileToGenerate)
  /\ filename \in DOMAIN filesByPath
  /\ heap' = [heap EXCEPT ![filesByPath[filename]].Generate = TRUE]
  /\ j' = j + 1
  /\ UNCHANGED <<request, pc, i, f, todo, files, filesByPath, enumsByName,
                 messagesByName, err, ret, lookups>>

\* Mutant of UnknownFileToGenerate: an unknown path is skipped.
UnknownFileToGenerateSkipped ==
  /\ pc = "generate"
  /\ j <= Len(request.FileToGenerate)
  /\ filename \notin DOMAIN filesByPath
  /\ j' = j + 1
  /\ UNCHANGED <<request, pc, i, heap, f, todo, files, filesByPath, enumsByName,
                 messagesByName, err, ret, lookups>>

\* NewGenerator, lines 65-67.
UnknownFileToGenerate ==
  /\ pc = "generate"
  /\ j <= Len(request.FileToGenerate)
  /\ filename \notin DOMAIN filesByPath
  /\ Fail(Err("no descriptor for generated file", "", filename))
  /\ UNCHANGED <<request, i, j, heap, f, todo, files, filesByPath, enumsByName,
                 messagesByName, lookups>>

\* NewGenerator, line 71.
ReturnGenerator ==
  /\ pc = "generate"
  /\ j > Len(request.FileToGenerate)
  /\ ret' = "gen"
  /\ pc' = "done"
  /\ UNCHANGED <<request, i, j, heap, f, todo, files, filesByPath, enumsByName,
                 messagesByName, err, lookups>>

Next ==
  \/ DuplicateFile
  \/ NewFileInvalid
  \/ NewFileBuild
  \/ ResolveField
  \/ ResolveMethod
  \/ NewFileReturn
  \/ MarkGenerate
  \/ UnknownFileToGenerate
  \/ ReturnGenerator

Spec == Init /\ [][Next]_vars

\* ============================================================== claims
Cells(k) == {n \in DOMAIN heap : heap[n].kind = k}

Succeeded == pc = "done" /\ ret = "gen"

Failed == pc = "done" /\ ret = "nil"

\* The paths of the descriptors of the request.
Supplied == {Catalogue[request.ProtoFile[k]].Path : k \in DOMAIN request.ProtoFile}

\* The cell a cell's address lies under, and the last step of an address.
Owner(n) == SubSeq(n, 1, Len(n) - 1)

LastStep(n) == n[Len(n)]

Pos(s, x) == CHOOSE k \in DOMAIN s : s[k] = x

\* The list of a cell, and of a descriptor, that a step of an address names.
ListOf(node, list) ==
  CASE list = "enum" -> node.Enums
    [] list = "message" -> node.Messages
    [] list = "field" -> node.Fields
    [] list = "extension" -> node.Extensions
    [] list = "oneof" -> node.Oneofs
    [] list = "value" -> node.Values
    [] list = "service" -> node.Services
    [] list = "method" -> node.Methods

DescListOf(desc, list) ==
  CASE list = "enum" -> desc.Enums
    [] list = "message" -> desc.Messages
    [] list = "field" -> desc.Fields
    [] list = "extension" -> desc.Extensions
    [] list = "oneof" -> desc.Oneofs
    [] list = "value" -> desc.Values
    [] list = "service" -> desc.Services
    [] list = "method" -> desc.Methods

\* link is the one cell of this kind built for the full name, and the
\* table's entry for it.
LinkedTo(link, kind, name, table) ==
  /\ link # Nil
  /\ link \in Cells(kind)
  /\ heap[link].Desc.FullName = name
  /\ \A m \in Cells(kind) : heap[m].Desc.FullName = name => m = link
  /\ name \in DOMAIN table
  /\ table[name] = link

\* C1: after NewGenerator succeeds, every enum field has a non-nil Enum and
\* every message or group field a non-nil Message; the linked cell is the
\* only cell built for a declaration of that kind with the field's declared
\* type name, and it is the table's entry for that name.  This covers a
\* type declared in another supplied file than the field.
C1_TypeLinksResolved ==
  Succeeded =>
    \A n \in Cells("field") :
      /\ heap[n].Desc.Kind = "enum" =>
           LinkedTo(heap[n].Enum, "enum", heap[n].Desc.Type, enumsByName)
      /\ heap[n].Desc.Kind \in {"message", "group"} =>
           LinkedTo(heap[n].Message, "message", heap[n].Desc.Type, messagesByName)

\* A successful build in which a message field, a group field and an enum
\* field are linked, the message and the enum across files.
C1_Witness ==
  /\ Succeeded
  /\ \E n \in Cells("field") :
       /\ heap[n].Desc.Kind = "message"
       /\ heap[n].Message # Nil
       /\ heap[n].Message[1] # n[1]
  /\ \E n \in Cells("field") :
       /\ heap[n].Desc.Kind = "enum"
       /\ heap[n].Enum # Nil
       /\ heap[n].Enum[1] # n[1]
  /\ \E n \in Cells("field") : heap[n].Desc.Kind = "group" /\ heap[n].Message # Nil

\* C3: in every message built, for each of its fields f and oneofs o,
\* f.Oneof = o exactly when o.Fields contains f; a member is in o.Fields once;
\* o.Fields holds fields of the message only, in the order of message.Fields.
C3_OneofMembership ==
  \A m \in Cells("message") :
    LET fs == heap[m].Fields
        os == heap[m].Oneofs
    IN /\ \A a \in DOMAIN fs, b \in DOMAIN os :
            /\ (heap[fs[a]].Oneof = os[b]) <=> (fs[a] \in Range(heap[os[b]].Fields))
            /\ Cardinality({k \in DOMAIN heap[os[b]].Fields :
                              heap[os[b]].Fields[k] = fs[a]}) <= 1
       /\ \A b \in DOMAIN os :
            LET members == heap[os[b]].Fields
            IN /\ Range(members) \subseteq Range(fs)
               /\ \A k1, k2 \in DOMAIN members :
                    k1 < k2 => Pos(fs, members[k1]) < Pos(fs, members[k2])

\* A message has just been built, nothing has been resolved yet, and one of
\* its oneofs holds two fields, both pointing back at it, while another
\* field of the message is in no oneof.
C3_Witness ==
  /\ pc = "resolve"
  /\ lookups = 0
  /\ \E m \in Cells("message") : \E b \in DOMAIN heap[m].Oneofs :
       LET o == heap[m].Oneofs[b]
       IN /\ Len(heap[o].Fields) = 2
          /\ heap[heap[o].Fields[1]].Oneof = o
          /\ heap[heap[o].Fields[2]].Oneof = o
          /\ Pos(heap[m].Fields, heap[o].Fields[1]) + 1 < Pos(heap[m].Fields, heap[o].Fields[2])
          /\ \E a \in DOMAIN heap[m].Fields : heap[heap[m].Fields[a]].Oneof = Nil

\* The table of tags as the specification lists it.
TagTable(ownerKind, list) ==
  CASE ownerKind = "file" /\ list = "message" -> 4
    [] ownerKind = "file" /\ list = "enum" -> 5
    [] ownerKind = "file" /\ list = "service" -> 6
    [] ownerKind = "file" /\ list = "extension" -> 7
    [] ownerKind = "message" /\ list = "field" -> 2
    [] ownerKind = "message" /\ list = "message" -> 3
    [] ownerKind = "message" /\ list = "enum" -> 4
    [] ownerKind = "message" /\ list = "extension" -> 6
    [] ownerKind = "message" /\ list = "oneof" -> 8
    [] ownerKind = "enum" /\ list = "value" -> 2
    [] ownerKind = "service" /\ list = "method" -> 2

\* C4: the Location.Path of every declaration cell is the Path of the cell
\* that owns it (empty for a file) followed by (tag, index): index is the
\* declaration's position in the owner's list, and tag is file->message 4,
\* file->enum 5, file->service 6, file->extension 7, message->field 2,
\* message->nested message 3, message->nested enum 4, message->extension 6,
\* message->oneof 8, enum->value 2, service->method 2.  As every stored path
\* is thereby a function of the position alone, building a child or a
\* sibling changes no stored path.
C4_LocationPaths ==
  \A n \in DOMAIN heap :
    IF heap[n].kind = "file"
    THEN heap[n].Location.Path = <<>>
    ELSE LET o == Owner(n)
             list == LastStep(n).list
             k == Pos(ListOf(heap[o], list), n)
         IN /\ o \in DOMAIN heap
            /\ n \in Range(ListOf(heap[o], list))
            /\ DescListOf(heap[o].Desc, list)[k] = heap[n].Desc
            /\ heap[n].Location.Path =
                 heap[o].Location.Path \o <<TagTable(heap[o].kind, list), k - 1>>
            /\ heap[n].Location.SourceFile = heap[o].Location.SourceFile

\* Cells of all eleven owner/list pairs exist, one three levels deep and one
\* at an index above one.
C4_Witness ==
  /\ \A p \in {<<"file", "message">>, <<"file", "enum">>, <<"file", "service">>,
               <<"file", "extension">>, <<"message", "field">>, <<"message", "message">>,
               <<"message", "enum">>, <<"message", "extension">>, <<"message", "oneof">>,
               <<"enum", "value">>, <<"service", "method">>} :
       \E n \in DOMAIN heap :
         /\ Len(n) > 1
         /\ heap[Owner(n)].kind = p[1]
         /\ LastStep(n).list = p[2]
  /\ \E n \in DOMAIN heap : Len(heap[n].Location.Path) = 6
  /\ \E n \in DOMAIN heap : Len(n) > 1 /\ LastStep(n).idx > 1

\* The positions of FileToGenerate that hold a path of no supplied file.
UnknownToGenerate ==
  {k \in DOMAIN request.FileToGenerate : request.FileToGenerate[k] \notin Supplied}

C6_WitnessUnknown ==
  /\ Failed
  /\ err.what = "no descriptor for generated file"
  /\ \E k \in DOMAIN files : heap[files[k]].Generate

\* ------------------------------------------- what the request declares
\* These read the descriptors of the request, never the cells built.
Decl(kind, name, addr) == [kind |-> kind, name |-> name, addr |-> addr]

Ref(kind, name) == [kind |-> kind, name |-> name]

RECURSIVE MessageDecls(_, _)
MessageDecls(desc, addr) ==
  {Decl("message", desc.FullName, addr)}
    \cup {Decl("enum", desc.Enums[k].FullName, addr \o <<Step("enum", k - 1)>>) :
            k \in DOMAIN desc.Enums}
    \cup UNION {MessageDecls(desc.Messages[k], addr \o <<Step("message", k - 1)>>) :
                  k \in DOMAIN desc.Messages}

FileDecls(c) ==
  {Decl("enum", Catalogue[c].Enums[k].FullName, FileId(c) \o <<Step("enum", k - 1)>>) :
     k \in DOMAIN Catalogue[c].Enums}
    \cup UNION {MessageDecls(Catalogue[c].Messages[k], FileId(c) \o <<Step("message", k - 1)>>) :
                  k \in DOMAIN Catalogue[c].Messages}

FieldRefs(d) ==
  (IF d.Kind = "enum" THEN {Ref("enum", d.Type)} ELSE {})
    \cup (IF d.Kind \in {"message", "group"} THEN {Ref("message", d.Type)} ELSE {})
    \cup (IF d.IsExtension THEN {Ref("message", d.ContainingMessage)} ELSE {})

MethodRefs(d) == {Ref("message", d.Input), Ref("message", d.Output)}

RECURSIVE MessageRefs(_)
MessageRefs(desc) ==
  UNION ({FieldRefs(desc.Fields[k]) : k \in DOMAIN desc.Fields}
           \cup {FieldRefs(desc.Extensions[k]) : k \in DOMAIN desc.Extensions}
           \cup {MessageRefs(desc.Messages[k]) : k \in DOMAIN desc.Messages})

FileRefs(c) ==
  UNION ({MessageRefs(Catalogue[c].Messages[k]) : k \in DOMAIN Catalogue[c].Messages}
           \cup {FieldRefs(Catalogue[c].Extensions[k]) : k \in DOMAIN Catalogue[c].Extensions}
           \cup UNION {{MethodRefs(Catalogue[c].Services[k].Methods[l]) :
                           l \in DOMAIN Catalogue[c].Services[k].Methods} :
                          k \in DOMAIN Catalogue[c].Services})

\* The declarations of the first k files of the request.
DeclsUpTo(k) == UNION {FileDecls(request.ProtoFile[l]) : l \in 1..k}

Declared(r, k) == \E d \in DeclsUpTo(k) : d.kind = r.kind /\ d.name = r.name

AddrOf(kind, name) ==
  IF Declared(Ref(kind, name), Len(request.ProtoFile))
  THEN (CHOOSE d \in DeclsUpTo(Len(request.ProtoFile)) : d.kind = kind /\ d.name = name).addr
  ELSE Nil

DuplicateFree ==
  \A k, l \in DOMAIN request.ProtoFile :
    k # l => Catalogue[request.ProtoFile[k]].Path # Catalogue[request.ProtoFile[l]].Path

Accepted == \A k \in DOMAIN request.ProtoFile : Catalogue[request.ProtoFile[k]].Valid

\* Every referenced type is declared in some supplied file.
AllDeclared ==
  \A k \in DOMAIN request.ProtoFile :
    \A r \in FileRefs(request.ProtoFile[k]) : Declared(r, Len(request.ProtoFile))

\* Every referenced type is declared in the file itself or in one supplied
\* before it.
DependencyOrder ==
  \A k \in DOMAIN request.ProtoFile :
    \A r \in FileRefs(request.ProtoFile[k]) : Declared(r, k)

\* ------------------------------------------------ what the cells hold
RefCells == Cells("field") \cup Cells("method")

Targets(n) ==
  IF heap[n].kind = "field" THEN FieldRefs(heap[n].Desc) ELSE MethodRefs(heap[n].Desc)

Present(r) ==
  r.name \in DOMAIN (IF r.kind = "enum" THEN enumsByName ELSE messagesByName)

Unresolvable(n) == \E r \in Targets(n) : ~Present(r)

FullyResolved(n) ==
  IF heap[n].kind = "field"
  THEN /\ heap[n].Desc.Kind = "enum" => heap[n].Enum # Nil
       /\ heap[n].Desc.Kind \in {"message", "group"} => heap[n].Message # Nil
       /\ heap[n].Desc.IsExtension => heap[n].Extendee # Nil
  ELSE heap[n].Input # Nil /\ heap[n].Output # Nil

Untouched(n) ==
  /\ heap[n].Enum = Nil
  /\ heap[n].Message = Nil
  /\ heap[n].Extendee = Nil
  /\ heap[n].Input = Nil
  /\ heap[n].Output = Nil

UnresolvedWhats ==
  {"field: no descriptor for enum", "field: no descriptor for type",
   "method: no descriptor for type"}

FailedUnresolved == Failed /\ err.what \in UnresolvedWhats

BuiltBefore(k) == {request.ProtoFile[l] : l \in 1..(k - 1)}

\* The links are those the declarations of the request determine, whatever
\* the order of the files.
LinksAsDeclared ==
  /\ files = [k \in DOMAIN request.ProtoFile |-> FileId(request.ProtoFile[k])]
  /\ \A c \in Range(request.ProtoFile) : FileId(c) \in DOMAIN heap
  /\ \A n \in Cells("field") :
       LET d == heap[n].Desc
       IN /\ heap[n].Enum = IF d.Kind = "enum" THEN AddrOf("enum", d.Type) ELSE Nil
          /\ heap[n].Message = IF d.Kind \in {"message", "group"}
                               THEN AddrOf("message", d.Type) ELSE Nil
          /\ heap[n].Extendee = IF d.IsExtension
                                THEN AddrOf("message", d.ContainingMessage) ELSE Nil
  /\ \A n \in Cells("method") :
       /\ heap[n].Input = AddrOf("message", heap[n].Desc.Input)
       /\ heap[n].Output = AddrOf("message", heap[n].Desc.Output)

Resolvable ==
  /\ DuplicateFree
  /\ Accepted
  /\ UnknownToGenerate = {}
  /\ AllDeclared

C7_FailsIffAbsent ==
  /\ \A n \in RefCells \ Range(todo) : ~Unresolvable(n)
  /\ (Failed /\ todo # <<>>) => err.what \in UnresolvedWhats
  /\ FailedUnresolved =>
       /\ todo # <<>>
       /\ err.name = heap[Head(todo)].Desc.FullName
       /\ \E r \in Targets(Head(todo)) :
            /\ ~Present(r)
            /\ err.target = r.name
            /\ err.what = IF heap[Head(todo)].kind = "method"
                          THEN "method: no descriptor for type"
                          ELSE IF r.kind = "enum"
                          THEN "field: no descriptor for enum"
                          ELSE "field: no descriptor for type"

\* b.proto without a.proto: the field B.Foo.bar of type A.Bar.
C7_Witness ==
  /\ Failed
  /\ err = Err("field: no descriptor for type", "B.Foo.bar", "A.Bar")
  /\ "a.proto" \notin Supplied

\* An extension whose type is in the table and whose extendee is not.
C7_WitnessExtendee ==
  /\ FailedUnresolved
  /\ heap[Head(todo)].Desc.IsExtension
  /\ heap[Head(todo)].Message # Nil
  /\ err.target = heap[Head(todo)].Desc.ContainingMessage

\* C8: an error ends NewGenerator at once with a nil Generator; when it is
\* an error of a file's build or resolution, the files after the failing one
\* have not been built, neither the failing file nor a later one is in
\* gen.files or gen.filesByPath, no Generate flag is set, and the references
\* of the failing file after the failing one are untouched.
C8_FailFast ==
  /\ err # NoErr <=> Failed
  /\ (Failed /\ err.what # "no descriptor for generated file") =>
       /\ i \in DOMAIN request.ProtoFile
       /\ files = [k \in 1..(i - 1) |-> FileId(request.ProtoFile[k])]
       /\ DOMAIN filesByPath = {Catalogue[c].Path : c \in BuiltBefore(i)}
       /\ \A n \in DOMAIN heap : n[1].idx \in BuiltBefore(i + 1)
       /\ err.what \notin UnresolvedWhats => \A n \in DOMAIN heap : n[1].idx \in BuiltBefore(i)
       /\ j = 1
       /\ \A n \in Cells("file") : ~heap[n].Generate
       /\ \A k \in 2..Len(todo) : Untouched(todo[k])

\* A reference of the second of three files fails: references after it are
\* left, the third file is not built, and a.proto, built and named in the
\* to-generate list, is not marked.
C8_Witness ==
  /\ FailedUnresolved
  /\ i = 2
  /\ Len(request.ProtoFile) = 3
  /\ request.ProtoFile[3] \notin BuiltBefore(3)
  /\ Catalogue[request.ProtoFile[3]].Valid
  /\ Len(todo) > 1
  /\ \E k \in DOMAIN request.FileToGenerate : request.FileToGenerate[k] \in DOMAIN filesByPath

\* The order of a message's three resolve loops as the specification states it.
MessageRank(list) ==
  CASE list = "field" -> 1
    [] list = "message" -> 2
    [] list = "extension" -> 3
    [] OTHER -> 0

\* a comes before b in the order the claim states (a and b in one file).
ClaimBefore(a, b) ==
  LET k == CHOOSE x \in 1..Len(a) : a[x] # b[x] /\ \A y \in 1..(x - 1) : a[y] = b[y]
  IN IF a[k].list = b[k].list THEN a[k].idx < b[k].idx
     ELSE IF k = 2 THEN a[k].list = "message" /\ b[k].list = "service"
     ELSE MessageRank(a[k].list) < MessageRank(b[k].list)

LinkedByName ==
  /\ \A n \in Cells("field") :
       LET d == heap[n].Desc
       IN /\ d.Kind = "enum" => heap[n].Enum = enumsByName[d.Type]
          /\ d.Kind \in {"message", "group"} => heap[n].Message = messagesByName[d.Type]
          /\ d.IsExtension => heap[n].Extendee = messagesByName[d.ContainingMessage]
  /\ \A n \in Cells("method") :
       /\ heap[n].Input = messagesByName[heap[n].Desc.Input]
       /\ heap[n].Output = messagesByName[heap[n].Desc.Output]

\* C9: the error returned is that of the earliest reference that cannot be
\* resolved: no file before the failing one holds such a reference, and
\* within the failing file none comes before the failing one in the order
\* own fields, nested messages (depth first), nested extensions, and
\* service methods after the message tree; a field reports its type before
\* its extendee and a method its input before its output.  On success every
\* link is the table's entry for its name, whatever the order.
C9_FirstUnresolvedReported ==
  /\ FailedUnresolved =>
       LET r == Head(todo)
           d == heap[r].Desc
       IN /\ r[1] = FileId(request.ProtoFile[i])[1]
          /\ \A n \in RefCells \ {r} :
               Unresolvable(n) => (n[1] = r[1] /\ ~ClaimBefore(n, r))
          /\ (heap[r].kind = "field" /\ d.Kind = "enum" /\ ~Present(Ref("enum", d.Type)))
               => err.target = d.Type
          /\ (heap[r].kind = "field" /\ d.Kind \in {"message", "group"}
                /\ ~Present(Ref("message", d.Type)))
               => err.target = d.Type
          /\ (heap[r].kind = "method" /\ ~Present(Ref("message", d.Input)))
               => err.target = d.Input
  /\ Succeeded => LinkedByName

\* d.proto alone: the field of the nested message D.M.N fails, while an
\* extension of D.M after it and a method cannot be resolved either.
C9_Witness ==
  /\ FailedUnresolved
  /\ heap[Head(todo)].kind = "field"
  /\ Len(Head(todo)) = 4
  /\ \E n \in Cells("field") :
       /\ n # Head(todo)
       /\ heap[n].Desc.IsExtension
       /\ Len(n) = 3
       /\ Unresolvable(n)
  /\ \E n \in Cells("method") : Unresolvable(n)

\* An extension, and a method, fail with both of their targets missing.
C9_WitnessBoth ==
  /\ FailedUnresolved
  /\ \A r \in Targets(Head(todo)) : ~Present(r)
  /\ Cardinality(Targets(Head(todo))) = 2

\* Every enum and message cell is its table's entry for its full name.
AllRegistered ==
  /\ \A n \in Cells("enum") :
       /\ heap[n].Desc.FullName \in DOMAIN enumsByName
       /\ enumsByName[heap[n].Desc.FullName] = n
  /\ \A n \in Cells("message") :
       /\ heap[n].Desc.FullName \in DOMAIN messagesByName
       /\ messagesByName[heap[n].Desc.FullName] = n

\* A link that is set is the table's entry for the name it was looked up by.
LinksAreEntries ==
  /\ \A n \in Cells("field") :
       /\ heap[n].Enum # Nil => heap[n].Enum = enumsByName[heap[n].Desc.Type]
       /\ heap[n].Message # Nil => heap[n].Message = messagesByName[heap[n].Desc.Type]
       /\ heap[n].Extendee # Nil =>
            heap[n].Extendee = messagesByName[heap[n].Desc.ContainingMessage]
  /\ \A n \in Cells("method") :
       /\ heap[n].Input # Nil => heap[n].Input = messagesByName[heap[n].Desc.Input]
       /\ heap[n].Output # Nil => heap[n].Output = messagesByName[heap[n].Desc.Output]

\* A step keeps every entry of both tables.
EntriesPersist ==
  /\ \A x \in DOMAIN enumsByName :
       x \in DOMAIN enumsByName' /\ enumsByName'[x] = enumsByName[x]
  /\ \A x \in DOMAIN messagesByName :
       x \in DOMAIN messagesByName' /\ messagesByName'[x] = messagesByName[x]

TablesUnchanged == UNCHANGED <<enumsByName, messagesByName>>

====
